---- MODULE Spec2Model ----
(***************************************************************************)
(* A model of github_release.py (CRS-Bot): the release check that fetches  *)
(* the latest release tag, filters it by the configured pattern, compares  *)
(* it with the version record kept in a JSON file, sends a Discord         *)
(* notification and saves the new record.                                  *)
(*                                                                         *)
(* Python values are records tagged by the field py.  A string is a tuple  *)
(* of atoms (an atom is one character or one indivisible piece of text),   *)
(* so that prefix tests and the pattern match are computed on its parts.   *)
(* A file or an HTTP body is a sequence of JSON tokens; json.load and      *)
(* json.dump are the parser and the printer over those tokens.             *)
(***************************************************************************)
EXTENDS Naturals, Sequences, FiniteSets

VARIABLES
    file,       \* the version file at config['storage']['version_file']
    upstream,   \* the body the release API currently serves
    env,        \* os.environ, as far as the program reads it
    config,     \* the configuration load_config returns
    inv,        \* per process: the invocation of check_for_new_release
    prev,       \* the record of the invocation that ended last
    log,        \* every call of send_discord_notification, in order
    runs,       \* number of invocations started
    file0,      \* the version file before the first invocation
    harness,    \* the last direct call of a function (load, save, send, ...)
    main,       \* the process running the module as the main script
    streak      \* the tag every invocation so far fetched and handled with
                \* success, if there is one

vars ==
    <<file, upstream, env, config, inv, prev, log, runs, file0, harness, main,
      streak>>

(***************************************************************************)
(* Bounds of the model.                                                    *)
(***************************************************************************)
MaxRuns == 2

(***************************************************************************)
(* Python values.                                                          *)
(***************************************************************************)
PyNone == [py |-> "None"]
PyStr(s) == [py |-> "str", s |-> s]
PyList(items) == [py |-> "list", items |-> items]
\* a dict is its items in insertion order, a later item overriding an earlier
PyDict(items) == [py |-> "dict", items |-> items]
PyTrue == [py |-> "bool", b |-> TRUE]
PyFalse == [py |-> "bool", b |-> FALSE]
Item(k, v) == [k |-> k, v |-> v]

IsStr(v) == v.py = "str"
IsDict(v) == v.py = "dict"

\* bool(v) for the values the program tests
Truthy(v) ==
    CASE v.py = "None" -> FALSE
      [] v.py = "str" -> Len(v.s) > 0
      [] v.py = "list" -> Len(v.items) > 0
      [] v.py = "dict" -> Len(v.items) > 0
      [] v.py = "bool" -> v.b
      [] OTHER -> TRUE

\* s.startswith(prefix) on the atoms of two strings
StartsWith(s, prefix) ==
    /\ Len(prefix) <= Len(s)
    /\ SubSeq(s, 1, Len(prefix)) = prefix

\* d.get(key), for a dict d: the value of the last item with that key, or None
DictKeys(d) == {d.items[i].k : i \in 1..Len(d.items)}
DictGet(d, key) ==
    LET hits == {i \in 1..Len(d.items) : d.items[i].k = key}
    IN  IF hits = {} THEN PyNone
        ELSE d.items[CHOOSE i \in hits : \A j \in hits : j <= i].v

\* the outcome of a call: it returns a value or it raises an exception
Return(v) == [out |-> "return", val |-> v]
Raise(e) == [out |-> "raise", exc |-> e]
Returned(o) == o.out = "return"
Raised(o) == o.out = "raise"

(***************************************************************************)
(* JSON text as tokens, json.load (the parser) and json.dump (the printer) *)
(***************************************************************************)
LBrace == [t |-> "{"]
RBrace == [t |-> "}"]
LBrack == [t |-> "["]
RBrack == [t |-> "]"]
Colon == [t |-> ":"]
Comma == [t |-> ","]
Null == [t |-> "null"]
StrTok(s) == [t |-> "str", s |-> s]
\* a lexeme that is no JSON token, such as the bare words of "invalid json"
Junk == [t |-> "junk"]

ParseFail == [ok |-> FALSE]
ParseOk(v, n) == [ok |-> TRUE, val |-> v, next |-> n]

RECURSIVE ParseValue(_, _)
RECURSIVE ParseElems(_, _, _)
RECURSIVE ParseMembers(_, _, _)

\* the elements of a list after "[" or after ","; acc holds those parsed
ParseElems(toks, i, acc) ==
    LET r == ParseValue(toks, i)
    IN  IF ~r.ok \/ r.next > Len(toks) THEN ParseFail
        ELSE IF toks[r.next].t = "]"
             THEN ParseOk(PyList(Append(acc, r.val)), r.next + 1)
        ELSE IF toks[r.next].t = ","
             THEN ParseElems(toks, r.next + 1, Append(acc, r.val))
        ELSE ParseFail

\* the members of an object after "{" or after ","; acc holds those parsed
ParseMembers(toks, i, acc) ==
    IF i + 1 > Len(toks) \/ toks[i].t # "str" \/ toks[i + 1].t # ":"
    THEN ParseFail
    ELSE LET r == ParseValue(toks, i + 2)
             a == Append(acc, Item(toks[i].s, IF r.ok THEN r.val ELSE PyNone))
         IN  IF ~r.ok \/ r.next > Len(toks) THEN ParseFail
             ELSE IF toks[r.next].t = "}" THEN ParseOk(PyDict(a), r.next + 1)
             ELSE IF toks[r.next].t = "," THEN ParseMembers(toks, r.next + 1, a)
             ELSE ParseFail

ParseValue(toks, i) ==
    IF i > Len(toks) THEN ParseFail
    ELSE CASE toks[i].t = "null" -> ParseOk(PyNone, i + 1)
           [] toks[i].t = "str" -> ParseOk(PyStr(toks[i].s), i + 1)
           [] toks[i].t = "[" ->
                IF i + 1 <= Len(toks) /\ toks[i + 1].t = "]"
                THEN ParseOk(PyList(<<>>), i + 2)
                ELSE ParseElems(toks, i + 1, <<>>)
           [] toks[i].t = "{" ->
                IF i + 1 <= Len(toks) /\ toks[i + 1].t = "}"
                THEN ParseOk(PyDict(<<>>), i + 2)
                ELSE ParseMembers(toks, i + 1, <<>>)
           [] OTHER -> ParseFail

\* json.loads: one value and nothing after it, else JSONDecodeError
JsonLoads(toks) ==
    LET r == ParseValue(toks, 1)
    IN  IF r.ok /\ r.next = Len(toks) + 1 THEN Return(r.val)
        ELSE Raise("JSONDecodeError")

RECURSIVE DumpItems(_)
\* json.dumps of a string or None
DumpScalar(v) == IF v.py = "None" THEN <<Null>> ELSE <<StrTok(v.s)>>
DumpItems(items) ==
    IF items = <<>> THEN <<>>
    ELSE LET h == Head(items)
             one == <<StrTok(h.k), Colon>> \o DumpScalar(h.v)
         IN  IF Len(items) = 1 THEN one
             ELSE one \o <<Comma>> \o DumpItems(Tail(items))
\* json.dumps of a dict whose values are strings or None
JsonDumps(d) == <<LBrace>> \o DumpItems(d.items) \o <<RBrace>>

(***************************************************************************)
(* The configuration (the dictionary load_config returns) and the strings  *)
(* the program uses.                                                       *)
(***************************************************************************)
Digits == {"0", "1", "2", "3", "4", "5", "6", "7", "8", "9"}

\* a pattern is a sequence of elements: a set of characters and a quantifier
One(cs) == [chars |-> cs, q |-> "one"]
Opt(cs) == [chars |-> cs, q |-> "opt"]
Plus(cs) == [chars |-> cs, q |-> "plus"]

DiscordPrefix == <<"https://discord.com/api/webhooks/">>
DiscordUrl == DiscordPrefix \o <<"test">>
OtherUrl == <<"https://example.com/">> \o <<"hook">>

WebhookUrlKey == <<"webhook_url">>
ColorKey == <<"color">>
FooterTextKey == <<"footer_text">>
NotificationKey == <<"notification">>

\* the configuration of the tests (r'v\d+\.\d+\.\d+', 'Test Repo', ...);
\* notification is the dictionary config['discord']['notification']
TestConfig(notification) ==
    [github |-> [repository |-> <<"test/repo">>,
                 name |-> <<"Test Repo">>,
                 version_pattern |-> <<One({"v"}), Plus(Digits), One({"."}),
                                       Plus(Digits), One({"."}), Plus(Digits)>>],
     discord |-> PyDict(<<Item(NotificationKey, notification)>>)]

FullNotification ==
    PyDict(<<Item(WebhookUrlKey, PyStr(DiscordUrl)),
             Item(ColorKey, PyStr(<<"5814783">>)),
             Item(FooterTextKey, PyStr(<<"CRS-Bot">>))>>)

LastVersionKey == <<"last_version">>
LastCheckKey == <<"last_check">>
TagNameKey == <<"tag_name">>

\* the tags of the tests
V100 == <<"v", "1", ".", "0", ".", "0">>
V090 == <<"v", "0", ".", "9", ".", "0">>
NotAVersion == <<"n", "o", "t", "-", "a", "-", "v">>
Tags == {V100, V090, NotAVersion}

\* what datetime.now().isoformat() may return
\* (without the microseconds when they are zero)
Times == {<<"2024-01-01T00:00:00">>, <<"2024-01-02T00:00:00", ".123456">>}

(***************************************************************************)
(* re.compile(pattern).match(s): the pattern matches a prefix of s.        *)
(***************************************************************************)
RECURSIVE MatchAt(_, _, _, _)
MatchAt(pat, i, s, j) ==
    IF i > Len(pat) THEN TRUE
    ELSE LET e == pat[i]
             here == j <= Len(s) /\ s[j] \in e.chars
         IN  CASE e.q = "one" -> here /\ MatchAt(pat, i + 1, s, j + 1)
               [] e.q = "opt" -> \/ here /\ MatchAt(pat, i + 1, s, j + 1)
                                 \/ MatchAt(pat, i + 1, s, j)
               [] e.q = "plus" -> here /\ (\/ MatchAt(pat, i, s, j + 1)
                                           \/ MatchAt(pat, i + 1, s, j + 1))

PatternMatch(pat, s) == MatchAt(pat, 1, s, 1)

(***************************************************************************)
(* The version store: the file and load_last_version / save_last_version.  *)
(***************************************************************************)
Absent == [kind |-> "absent"]          \* no file, the directory exists
NoDir == [kind |-> "nodir"]            \* no file, and no parent directory
\* the file exists and reading it raises: no permission on it (a write is
\* then denied too) or bytes that do not decode (a write replaces them)
Unreadable == [kind |-> "unreadable"]
Text(toks) == [kind |-> "text", toks |-> toks]

Exists(f) == f.kind \in {"text", "unreadable"}

VersionRecord(version, now) ==
    PyDict(<<Item(LastVersionKey, version), Item(LastCheckKey, PyStr(now))>>)

RecordFile(tag, now) == Text(JsonDumps(VersionRecord(PyStr(tag), now)))

\* load_last_version without the except clause
LoadLastVersionNoExcept(f) ==
    IF Exists(f)
    THEN IF f.kind = "unreadable" THEN Raise("OSError")
         ELSE LET data == JsonLoads(f.toks)
              IN  IF Raised(data) THEN data
                  ELSE IF ~IsDict(data.val) THEN Raise("AttributeError")
                  ELSE Return(DictGet(data.val, LastVersionKey))
    ELSE Return(PyNone)

\* load_last_version: the outcome of the call on the file f
LoadLastVersion(f) ==
    IF Exists(f)
    THEN IF f.kind = "unreadable" THEN Raise("OSError")
         ELSE LET data == JsonLoads(f.toks)
              IN  IF Raised(data) THEN Return(PyNone)
                  ELSE IF ~IsDict(data.val) THEN Raise("AttributeError")
                  ELSE Return(DictGet(data.val, LastVersionKey))
    ELSE Return(PyNone)

\* open(version_file, "w"): w is what the file system answers
OpenForWrite(f, w) ==
    IF f.kind = "nodir" THEN Raise("FileNotFoundError")
    ELSE IF w = "denied" THEN Raise("PermissionError")
    ELSE Return(Text(<<>>))

\* save_last_version opening the file with "a" instead of "w"
SaveLastVersionAppend(version, now, f, w) ==
    LET opened == OpenForWrite(f, w)
        before == IF f.kind = "text" THEN f.toks ELSE <<>>
    IN  IF Raised(opened) THEN [out |-> opened, file |-> f]
        ELSE IF w = "full" THEN [out |-> Raise("OSError"), file |-> Text(before)]
        ELSE [out |-> Return(PyNone),
              file |-> Text(before \o JsonDumps(VersionRecord(version, now)))]

\* save_last_version catching the error of open and returning
SaveLastVersionSwallow(version, now, f, w) ==
    LET opened == OpenForWrite(f, w)
    IN  IF Raised(opened) THEN [out |-> Return(PyNone), file |-> f]
        ELSE IF w = "full" THEN [out |-> Return(PyNone), file |-> opened.val]
        ELSE [out |-> Return(PyNone),
              file |-> Text(opened.val.toks \o JsonDumps(VersionRecord(version, now)))]

\* save_last_version: the outcome of the call and the file after it
SaveLastVersion(version, now, f, w) ==
    LET opened == OpenForWrite(f, w)
    IN  IF Raised(opened) THEN [out |-> opened, file |-> f]
        \* the file is already truncated when the write fails
        ELSE IF w = "full" THEN [out |-> Raise("OSError"), file |-> opened.val]
        ELSE [out |-> Return(PyNone),
              file |-> Text(opened.val.toks \o JsonDumps(VersionRecord(version, now)))]

\* what the file system answers a save: it works, the open is denied, or
\* the open works and the write fails (no space left on the device)
WriteAnswers == {"ok", "denied", "full"}

(***************************************************************************)
(* The release fetcher: get_latest_release.                                *)
(***************************************************************************)
\* what session.get(api_url) may do: answer with a status and a body, or
\* raise a requests exception (after the session's own retries)
Response(status, body) == [kind |-> "response", status |-> status, body |-> body]
Throws(e) == [kind |-> "raise", exc |-> e]

\* the bodies the release API may serve
TagBody(tag) == <<LBrace, StrTok(TagNameKey), Colon, StrTok(tag), RBrace>>
NullTagBody == <<LBrace, StrTok(TagNameKey), Colon, Null, RBrace>>
NoTagBody == <<LBrace, StrTok(<<"other_field">>), Colon, StrTok(<<"value">>), RBrace>>
ListBody == <<LBrack, RBrack>>
JunkBody == <<Junk>>

RequestExceptions ==
    {"RequestException", "HTTPError", "ConnectionError", "Timeout",
     "JSONDecodeError"}

\* response.raise_for_status()
RaiseForStatus(status) ==
    IF status >= 400 /\ status < 600 THEN Raise("HTTPError") ELSE Return(PyNone)

\* get_latest_release: the outcome of the call when session.get answers r
GetLatestRelease(r) ==
    IF r.kind = "raise"
    THEN IF r.exc \in RequestExceptions THEN Return(PyNone) ELSE Raise(r.exc)
    ELSE IF Raised(RaiseForStatus(r.status)) THEN Return(PyNone)
    ELSE LET data == JsonLoads(r.body)
         IN  \* response.json() raises requests' JSONDecodeError
             IF Raised(data) THEN Return(PyNone)
             \* data.get('tag_name') in the log line
             ELSE IF ~IsDict(data.val) THEN Raise("AttributeError")
             \* data["tag_name"]
             ELSE IF TagNameKey \notin DictKeys(data.val) THEN Raise("KeyError")
             ELSE Return(DictGet(data.val, TagNameKey))

(***************************************************************************)
(* The notifier: get_discord_webhook_url and send_discord_notification.    *)
(***************************************************************************)
Environ(test_env, error_type, url, input_url) ==
    [TEST_ENV |-> test_env, TEST_ERROR_TYPE |-> error_type,
     DISCORD_WEBHOOK_URL |-> url, INPUT_DISCORD_WEBHOOK_URL |-> input_url]

\* d.get(key, {}) followed by another .get: a missing key gives the empty dict
DictGetOrEmpty(d, key) ==
    IF key \in DictKeys(d) THEN DictGet(d, key) ELSE PyDict(<<>>)

\* get_discord_webhook_url preferring the configuration file
GetDiscordWebhookUrlConfigFirst(cfg, environ) ==
    LET url == DictGet(DictGetOrEmpty(cfg.discord, NotificationKey),
                       WebhookUrlKey)
    IN  IF Truthy(url) THEN url
        ELSE IF Truthy(environ.DISCORD_WEBHOOK_URL)
             THEN environ.DISCORD_WEBHOOK_URL
        ELSE IF Truthy(environ.INPUT_DISCORD_WEBHOOK_URL)
             THEN environ.INPUT_DISCORD_WEBHOOK_URL
        ELSE PyNone

\* get_discord_webhook_url
GetDiscordWebhookUrl(cfg, environ) ==
    IF Truthy(environ.DISCORD_WEBHOOK_URL) THEN environ.DISCORD_WEBHOOK_URL
    ELSE IF Truthy(environ.INPUT_DISCORD_WEBHOOK_URL)
         THEN environ.INPUT_DISCORD_WEBHOOK_URL
    ELSE LET url == DictGet(DictGetOrEmpty(cfg.discord, NotificationKey),
                            WebhookUrlKey)
         IN  IF Truthy(url) THEN url ELSE PyNone

\* config['discord']['notification'][key], or the default on KeyError
NotificationOr(cfg, key, default) ==
    LET n == DictGetOrEmpty(cfg.discord, NotificationKey)
    IN  IF key \in DictKeys(n) THEN DictGet(n, key) ELSE default

DefaultColor == PyStr(<<"5814783">>)
DefaultFooter == PyStr(<<"GitHub Release Bot">>)

\* the message send_discord_notification posts
Message(version, cfg) ==
    [embeds |-> <<[title |-> <<"New Release Available: ">> \o version.s,
                   description |-> <<"A new version of ">> \o cfg.github.name
                                   \o <<" has been released!">>,
                   color |-> NotificationOr(cfg, ColorKey, DefaultColor),
                   footer |-> [text |-> NotificationOr(cfg, FooterTextKey,
                                                       DefaultFooter)]]>>]

\* requests.post(...) followed by raise_for_status(): the exception, if any
PostException(r) ==
    IF r.kind = "raise" THEN Raise(r.exc) ELSE RaiseForStatus(r.status)

IsTestEnv(environ) == environ.TEST_ENV = PyStr(<<"true">>)

\* os.getenv('TEST_ERROR_TYPE', 'request')
ErrorType(environ) ==
    IF environ.TEST_ERROR_TYPE = PyNone THEN PyStr(<<"request">>)
    ELSE environ.TEST_ERROR_TYPE

\* the except clauses without the test-environment branches
HandlePostErrorProduction(e, webhook_url, environ) ==
    IF e \in RequestExceptions
    THEN IF ~StartsWith(webhook_url.s, DiscordPrefix)
         THEN Raise("RequestException")
         ELSE Raise(e)
    ELSE Raise(e)

\* the except clauses of send_discord_notification, for the exception e
HandlePostError(e, webhook_url, environ) ==
    IF e \in RequestExceptions
    THEN IF IsTestEnv(environ)
         THEN IF ErrorType(environ) = PyStr(<<"http">>) /\ e = "HTTPError"
                   THEN Raise(e)
              ELSE IF ErrorType(environ) = PyStr(<<"connection">>)
                      /\ e = "ConnectionError"
                   THEN Raise(e)
              ELSE IF ErrorType(environ) = PyStr(<<"request">>)
                      /\ ~StartsWith(webhook_url.s, DiscordPrefix)
                   THEN Raise("RequestException")
              ELSE Return(PyFalse)
         ELSE IF ~StartsWith(webhook_url.s, DiscordPrefix)
              THEN Raise("RequestException")
              ELSE Raise(e)
    ELSE IF IsTestEnv(environ) THEN Return(PyFalse) ELSE Raise(e)

\* send_discord_notification validating its input after the POST
SendDiscordNotificationLateCheck(version, cfg, environ, r) ==
    LET webhook_url == GetDiscordWebhookUrl(cfg, environ)
        sent == <<[url |-> webhook_url, json |-> PyNone]>>
    IN  IF version = PyNone THEN [out |-> Raise("ValueError"), posts |-> sent]
        ELSE IF ~Truthy(webhook_url)
             THEN [out |-> Raise("ValueError"), posts |-> sent]
        ELSE LET e == PostException(r)
                 post == [url |-> webhook_url, json |-> Message(version, cfg)]
             IN  [out |-> IF Raised(e)
                          THEN HandlePostError(e.exc, webhook_url, environ)
                          ELSE Return(PyTrue),
                  posts |-> <<post>>]

\* send_discord_notification: the outcome of the call, and the POSTs it
\* issued, when the webhook answers r
SendDiscordNotification(version, cfg, environ, r) ==
    LET webhook_url == GetDiscordWebhookUrl(cfg, environ)
    IN  IF version = PyNone THEN [out |-> Raise("ValueError"), posts |-> <<>>]
        ELSE IF ~Truthy(webhook_url)
             THEN [out |-> Raise("ValueError"), posts |-> <<>>]
        ELSE LET e == PostException(r)
                 post == [url |-> webhook_url, json |-> Message(version, cfg)]
             IN  [out |-> IF Raised(e)
                          THEN HandlePostError(e.exc, webhook_url, environ)
                          ELSE Return(PyTrue),
                  posts |-> <<post>>]

(***************************************************************************)
(* The orchestrator: check_for_new_release, one step per call it makes.    *)
(***************************************************************************)
Procs == {"p1", "p2"}

NotCalled == [out |-> "not called"]

\* the process running the module as the main script: where it is, the
\* module globals it set, and what it has done so far
MainFresh ==
    [pc |-> "import",
     webhook |-> PyNone,            \* the global DISCORD_WEBHOOK_URL
     config_loads |-> 0,            \* the calls of load_config
     logging |-> NotCalled,         \* the outcome of setup_logging
     checked |-> FALSE,             \* check_for_new_release was called
     errors |-> <<>>,               \* what logger.error / .exception logged
     exit |-> <<>>,                 \* the exit status, once it has exited
     log0 |-> 0,                    \* the notifier calls made before it started
     file0 |-> Absent]              \* the version file when it started

\* the module is not being run as the main script
NoMain == [MainFresh EXCEPT !.pc = "none"]

\* an invocation: where it is, its locals, and what it has done so far
Fresh ==
    [pc |-> "idle",
     latest_version |-> PyNone,     \* the local of check_for_new_release
     last_version |-> PyNone,       \* the local of check_for_new_release
     fetched |-> NotCalled,         \* the outcome of get_latest_release
     loaded |-> NotCalled,          \* the outcome of load_last_version
     sent |-> NotCalled,            \* the outcome of send_discord_notification
     saved |-> NotCalled,           \* the outcome of save_last_version
     notify_args |-> <<>>,          \* the versions passed to the notifier
     save_args |-> <<>>,            \* the versions passed to save_last_version
     posts |-> <<>>,                \* the POSTs issued
     answers |-> <<>>,              \* what the webhook answered them
     delivered |-> 0,               \* the POSTs answered with success
     trace |-> <<>>,                \* the steps taken, in order
     write |-> "none",              \* what the file system answered the save
     fileAtStart |-> Absent,        \* the version file when it started
     fileAtLoad |-> Absent]         \* the version file when it loaded it

NoRun == [Fresh EXCEPT !.pc = "none"]

Ended(r) == r.pc \in {"returned", "raised"}

\* the check going on whatever the fetch returned
FetchNextAlways(latest_version) == "filter"

\* lines 315-318: the fetch result decides whether the check goes on
FetchNext(latest_version) ==
    IF ~Truthy(latest_version) THEN "returned" ELSE "filter"

\* the check going on whether or not the pattern matches
FilterNextAlways(cfg, latest_version) ==
    IF ~IsStr(latest_version) THEN "raised" ELSE "compare"

\* lines 320-323: the pattern decides whether the check goes on
FilterNext(cfg, latest_version) ==
    IF ~IsStr(latest_version) THEN "raised"
    ELSE IF ~PatternMatch(cfg.github.version_pattern, latest_version.s)
         THEN "returned"
    ELSE "compare"

\* a polling loop: fetching again when there is nothing new
CompareNextPoll(last_version, latest_version) ==
    IF last_version # latest_version THEN "notify" ELSE "fetch"

\* notifying whatever the stored version is
CompareNextAlways(last_version, latest_version) == "notify"

\* lines 327-332: notify and save when the stored version differs
CompareNext(last_version, latest_version) ==
    IF last_version # latest_version THEN "notify" ELSE "returned"

\* saving only when the notifier reported the notification as sent
NotifyNextIfSent(sent) ==
    IF Raised(sent) THEN "raised"
    ELSE IF sent = Return(PyTrue) THEN "persist"
    ELSE "returned"

\* saving even when the notifier raised
NotifyNextAlways(sent) == "persist"

\* lines 329-330: the save follows a notifier that returned, whatever it returned
NotifyNext(sent) == IF Raised(sent) THEN "raised" ELSE "persist"

\* saving the version that was loaded instead of the one fetched
VersionToSaveLast(r) == r.last_version

\* the version line 330 passes to save_last_version
VersionToSave(r) == r.latest_version

\* what session.get may answer while the API serves body
FetchAnswers(body) ==
    {Response(200, body), Response(404, JunkBody), Throws("ConnectionError")}

\* what the webhook may answer to the POST
PostAnswers ==
    {Response(204, <<>>), Response(304, <<>>), Response(429, <<>>),
     Response(500, <<>>), Throws("ConnectionError"), Throws("Exception")}

Idle == \A q \in Procs : inv[q].pc = "idle"

\* a process starts check_for_new_release(config); invocations do not overlap
Start(p) ==
    /\ p = "p1"
    /\ Idle
    /\ runs < MaxRuns
    /\ runs' = runs + 1
    /\ inv' = [inv EXCEPT ![p] = [Fresh EXCEPT !.pc = "fetch",
                                               !.fileAtStart = file]]
    /\ UNCHANGED <<file, upstream, env, config, prev, log, file0, harness,
                 main, streak>>

\* line 315-318: latest_version = get_latest_release(config)
Fetch(p) ==
    /\ inv[p].pc = "fetch"
    /\ \E r \in FetchAnswers(upstream) :
         LET o == GetLatestRelease(r)
         IN  inv' = [inv EXCEPT
                 ![p].fetched = o,
                 ![p].trace = Append(@, "FETCH"),
                 ![p].latest_version = IF Returned(o) THEN o.val ELSE @,
                 ![p].pc = IF Returned(o) THEN FetchNext(o.val) ELSE "raised"]
    /\ UNCHANGED <<file, upstream, env, config, prev, log, runs, file0, harness,
                 main, streak>>

\* lines 320-323: the version pattern
Filter(p) ==
    /\ inv[p].pc = "filter"
    /\ inv' = [inv EXCEPT
            ![p].trace = Append(@, "FILTER"),
            ![p].pc = FilterNext(config, inv[p].latest_version)]
    /\ UNCHANGED <<file, upstream, env, config, prev, log, runs, file0, harness,
                 main, streak>>

\* lines 325-332: last_version = load_last_version(config) and the comparison
Compare(p) ==
    /\ inv[p].pc = "compare"
    /\ LET o == LoadLastVersion(file)
       IN  inv' = [inv EXCEPT
               ![p].loaded = o,
               ![p].fileAtLoad = file,
               ![p].trace = Append(@, "COMPARE"),
               ![p].last_version = IF Returned(o) THEN o.val ELSE @,
               ![p].pc = IF Returned(o)
                         THEN CompareNext(o.val, inv[p].latest_version)
                         ELSE "raised"]
    /\ UNCHANGED <<file, upstream, env, config, prev, log, runs, file0, harness,
                 main, streak>>

\* line 329: send_discord_notification(latest_version, config)
Notify(p) ==
    /\ inv[p].pc = "notify"
    /\ \E r \in PostAnswers :
         LET res == SendDiscordNotification(inv[p].latest_version, config, env, r)
             ok == res.out = Return(PyTrue)
         IN  /\ inv' = [inv EXCEPT
                     ![p].sent = res.out,
                     ![p].notify_args = Append(@, inv[p].latest_version),
                     ![p].trace = Append(@, "NOTIFY"),
                     ![p].posts = @ \o res.posts,
                     ![p].answers = IF res.posts = <<>> THEN @
                                    ELSE Append(@, r),
                     ![p].delivered = IF ok THEN @ + 1 ELSE @,
                     ![p].pc = NotifyNext(res.out)]
             /\ log' = Append(log, [version |-> inv[p].latest_version,
                                    out |-> res.out,
                                    by |-> p,
                                    saved |-> NotCalled])
    /\ UNCHANGED <<file, upstream, env, config, prev, runs, file0, harness,
                 main, streak>>

\* line 330: save_last_version(latest_version, config)
Persist(p) ==
    /\ inv[p].pc = "persist"
    /\ \E now \in Times, w \in WriteAnswers :
         LET res == SaveLastVersion(VersionToSave(inv[p]), now, file, w)
             mine == {i \in 1..Len(log) : log[i].by = p}
             last == CHOOSE i \in mine : \A j \in mine : j <= i
         IN  /\ file' = res.file
             /\ inv' = [inv EXCEPT
                     ![p].saved = res.out,
                     ![p].save_args = Append(@, VersionToSave(inv[p])),
                     ![p].trace = Append(@, "PERSIST"),
                     ![p].write = w,
                     ![p].pc = IF Raised(res.out) THEN "raised" ELSE "returned"]
             /\ log' = [log EXCEPT ![last].saved = res.out]
    /\ UNCHANGED <<upstream, env, config, prev, runs, file0, harness,
                 main, streak>>

\* an invocation handled its tag with success: it returned, and the
\* notification it sent, if any, was delivered
Successful(r) ==
    /\ r.pc = "returned"
    /\ Returned(r.fetched)
    /\ r.sent \in {NotCalled, Return(PyTrue)}

NoStreak == [streak |-> "none"]
Broken == [streak |-> "broken"]
Streak(v) == [streak |-> "tag", tag |-> v]

\* the streak after the invocation r has ended
NextStreak(s, r) ==
    IF Successful(r) /\ s \in {NoStreak, Streak(r.fetched.val)}
    THEN Streak(r.fetched.val)
    ELSE Broken

\* the process ends; its record is kept as that of the last invocation
Exit(p) ==
    /\ Ended(inv[p])
    /\ main = NoMain
    /\ prev' = inv[p]
    /\ streak' = NextStreak(streak, inv[p])
    /\ inv' = [inv EXCEPT ![p] = Fresh]
    /\ UNCHANGED <<file, upstream, env, config, log, runs, file0, harness,
                 main>>

(***************************************************************************)
(* The module run as the main script: the import (lines 98-116) and the    *)
(* __main__ block (lines 334-344).                                         *)
(***************************************************************************)
\* the guard sending every process on to the logging setup
GuardRaisesNever(webhook) == Return(PyNone)

\* lines 337-339: sys.exit(1) raises SystemExit when there is no webhook URL
GuardRaises(webhook) ==
    IF ~Truthy(webhook) THEN Raise("SystemExit") ELSE Return(PyNone)

\* a handler written as 'except BaseException'
IsExceptionOrExit(e) == TRUE

\* line 343: 'except Exception' catches everything but SystemExit
IsException(e) == e # "SystemExit"

\* the exit status of the process when e leaves the try block
ExitStatus(e) == IF IsException(e) THEN <<0>> ELSE <<1>>

\* what the handler logs for e
HandlerLog(e) == IF IsException(e) THEN <<"Unexpected error occurred:">> ELSE <<>>

\* what configure_logging may do when it opens the log file
LoggingAnswers == {"ok", "error"}

\* setup_logging: nothing when TEST_ENV is set, configure_logging otherwise
SetupLoggingOutcome(environ, a) ==
    IF Truthy(environ.TEST_ENV) THEN Return(PyNone)
    ELSE IF a = "error" THEN Raise("OSError")
    ELSE Return(PyNone)

MainIdle == main.pc \in {"none", "exited"}

\* the interpreter imports the module: lines 98-116
MainImport ==
    /\ MainIdle
    /\ Idle
    /\ runs < MaxRuns
    /\ runs' = runs + 1
    /\ main' = [MainFresh EXCEPT
                    !.pc = "guard",
                    !.config_loads = 1,
                    !.webhook = GetDiscordWebhookUrl(config, env),
                    !.log0 = Len(log),
                    !.file0 = file]
    /\ UNCHANGED <<file, upstream, env, config, inv, prev, log, file0, harness,
                 streak>>

\* lines 337-339: the webhook URL is validated before anything else
MainGuard ==
    /\ main.pc = "guard"
    /\ LET o == GuardRaises(main.webhook)
       IN  main' = IF Raised(o)
                   THEN [main EXCEPT
                            !.pc = "exited",
                            !.errors = <<"No Discord webhook URL configured!">>
                                       \o HandlerLog(o.exc),
                            !.exit = ExitStatus(o.exc)]
                   ELSE [main EXCEPT !.pc = "logging"]
    /\ UNCHANGED <<file, upstream, env, config, inv, prev, log, runs, file0,
                 harness, streak>>

\* line 341: setup_logging()
SetupLogging ==
    /\ main.pc = "logging"
    /\ \E a \in LoggingAnswers :
         LET o == SetupLoggingOutcome(env, a)
         IN  main' = IF Raised(o)
                     THEN [main EXCEPT
                              !.pc = "exited",
                              !.logging = o,
                              !.errors = @ \o HandlerLog(o.exc),
                              !.exit = ExitStatus(o.exc)]
                     ELSE [main EXCEPT !.pc = "check", !.logging = o]
    /\ UNCHANGED <<file, upstream, env, config, inv, prev, log, runs, file0,
                 harness, streak>>

\* line 342: check_for_new_release() is called without a configuration, so
\* line 312 calls load_config again
MainCheck ==
    /\ main.pc = "check"
    /\ main' = [main EXCEPT !.pc = "checking",
                            !.checked = TRUE,
                            !.config_loads = @ + 1]
    /\ inv' = [inv EXCEPT !["p1"] = [Fresh EXCEPT !.pc = "fetch",
                                                  !.fileAtStart = file]]
    /\ UNCHANGED <<file, upstream, env, config, prev, log, runs, file0,
                 harness, streak>>

\* lines 342-344: check_for_new_release returns, or raises into the handler;
\* the process ends
MainReturn ==
    /\ main.pc = "checking"
    /\ Ended(inv["p1"])
    /\ main' = [main EXCEPT
                    !.pc = "exited",
                    !.errors = IF inv["p1"].pc = "raised"
                               THEN @ \o HandlerLog("Exception") ELSE @,
                    !.exit = IF inv["p1"].pc = "raised"
                             THEN ExitStatus("Exception") ELSE <<0>>]
    /\ prev' = inv["p1"]
    /\ streak' = NextStreak(streak, inv["p1"])
    /\ inv' = [inv EXCEPT !["p1"] = Fresh]
    /\ UNCHANGED <<file, upstream, env, config, log, runs, file0, harness>>

(***************************************************************************)
(* The world around the program.                                           *)
(***************************************************************************)
AllBodies ==
    {TagBody(t) : t \in Tags} \cup
    {TagBody(<<>>), NullTagBody, NoTagBody, ListBody, JunkBody}
\* those the release check is run against
Bodies == {TagBody(t) : t \in Tags} \cup {TagBody(<<>>), NullTagBody, NoTagBody}

\* a new release is published (or the API starts serving something else)
UpstreamChange ==
    /\ Idle
    /\ MainIdle
    /\ \E b \in Bodies \ {upstream} : upstream' = b
    /\ UNCHANGED <<file, env, config, inv, prev, log, runs, file0, harness,
                 main, streak>>

\* the version file before the first invocation: missing, unreadable,
\* corrupt in several ways, or a record written by an earlier run
T0 == <<"2023-12-31T00:00:00">>
EmptyFile == Text(<<>>)
InvalidJsonFile == Text(<<Junk, Junk>>)
ListFile == Text(<<LBrack, RBrack>>)
NullFile == Text(<<Null>>)
EmptyObjectFile == Text(<<LBrace, RBrace>>)
CorruptFiles == {EmptyFile, InvalidJsonFile, ListFile, NullFile, Unreadable}
AllFiles ==
    {Absent, NoDir, EmptyObjectFile} \cup CorruptFiles
    \cup {RecordFile(t, T0) : t \in Tags}
\* those the release check is run against
InitFiles ==
    {Absent, NoDir, EmptyObjectFile, InvalidJsonFile, ListFile, Unreadable}
    \cup {RecordFile(t, T0) : t \in Tags}

NoEnv == Environ(PyNone, PyNone, PyNone, PyNone)
TestEnv == Environ(PyStr(<<"true">>), PyNone, PyNone, PyNone)
HttpTestEnv == [TestEnv EXCEPT !.TEST_ERROR_TYPE = PyStr(<<"http">>)]
OtherUrlEnv == [NoEnv EXCEPT !.DISCORD_WEBHOOK_URL = PyStr(OtherUrl)]
\* the environment and configuration of a run: production, the tests'
\* environment, and production with no webhook URL anywhere
Environments ==
    {<<NoEnv, TestConfig(FullNotification)>>,
     <<TestEnv, TestConfig(FullNotification)>>,
     <<NoEnv, TestConfig(PyDict(<<>>))>>}

NoCall == [op |-> "none"]

Init ==
    /\ file \in InitFiles
    /\ file0 = file
    /\ upstream \in Bodies
    /\ \E e \in Environments : env = e[1] /\ config = e[2]
    /\ inv = [p \in Procs |-> Fresh]
    /\ prev = NoRun
    /\ log = <<>>
    /\ runs = 0
    /\ harness = NoCall
    /\ main = NoMain
    /\ streak = NoStreak

Next ==
    \/ \E p \in Procs : Start(p)
    \/ \E p \in Procs : Fetch(p)
    \/ \E p \in Procs : Filter(p)
    \/ \E p \in Procs : Compare(p)
    \/ \E p \in Procs : Notify(p)
    \/ \E p \in Procs : Persist(p)
    \/ \E p \in Procs : Exit(p)
    \/ UpstreamChange

Spec == Init /\ [][Next]_vars

\* the program run as the main script, one process after the other
MainNext ==
    \/ MainImport
    \/ MainGuard
    \/ SetupLogging
    \/ MainCheck
    \/ \E p \in Procs : Fetch(p)
    \/ \E p \in Procs : Filter(p)
    \/ \E p \in Procs : Compare(p)
    \/ \E p \in Procs : Notify(p)
    \/ \E p \in Procs : Persist(p)
    \/ MainReturn
    \/ UpstreamChange

MainSpec == Init /\ [][MainNext]_vars

(***************************************************************************)
(* The version store called directly, as tests/test_version.py does:       *)
(* any sequence of save_last_version and load_last_version on any file.    *)
(***************************************************************************)
Versions == Tags \cup {<<>>}

StoreInit ==
    /\ file \in AllFiles
    /\ file0 = file
    /\ upstream = TagBody(V100)
    /\ env = NoEnv
    /\ config = TestConfig(FullNotification)
    /\ inv = [p \in Procs |-> Fresh]
    /\ prev = NoRun
    /\ log = <<>>
    /\ runs = 0
    /\ harness = NoCall
    /\ main = NoMain
    /\ streak = NoStreak

\* save_last_version(v, config)
StoreSave ==
    /\ \E v \in Versions, now \in Times, w \in WriteAnswers :
         LET res == SaveLastVersion(PyStr(v), now, file, w)
         IN  /\ file' = res.file
             /\ harness' = [op |-> "save", arg |-> PyStr(v), out |-> res.out,
                            before |-> file, saved |-> NotCalled,
                            prior |-> file]
    /\ UNCHANGED <<upstream, env, config, inv, prev, log, runs, file0,
                 main, streak>>

\* load_last_version(config); saved is the version of the save just before
\* it, when that save succeeded, and prior the file before that save
StoreLoad ==
    /\ LET after == harness.op = "save" /\ Returned(harness.out)
       IN  harness' = [op |-> "load", arg |-> PyNone,
                       out |-> LoadLastVersion(file),
                       before |-> file,
                       saved |-> IF after THEN Return(harness.arg) ELSE NotCalled,
                       prior |-> IF after THEN harness.before ELSE file]
    /\ UNCHANGED <<file, upstream, env, config, inv, prev, log, runs, file0,
                 main, streak>>

StoreNext == StoreSave \/ StoreLoad

StoreSpec == StoreInit /\ [][StoreNext]_vars

(***************************************************************************)
(* Overlapping invocations: two processes run check_for_new_release at the *)
(* same time on the same version file.  Nothing locks the file, so the     *)
(* open (which truncates) and the write of one save interleave with the    *)
(* steps of the other process.                                             *)
(***************************************************************************)
\* the length of the text of a token sequence, an atom of a string counting
\* for one
TokenSize(tok) == IF tok.t = "str" THEN Len(tok.s) + 2 ELSE 1

RECURSIVE TextSize(_)
TextSize(toks) ==
    IF toks = <<>> THEN 0 ELSE TokenSize(Head(toks)) + TextSize(Tail(toks))

\* a write of toks at offset 0 of a file opened with "w" by this process:
\* what another process wrote beyond the end of toks stays in the file
WriteAtStart(f, toks) ==
    IF f.kind = "text" /\ TextSize(f.toks) > TextSize(toks)
    THEN Text(toks \o <<Junk>>)
    ELSE Text(toks)

\* the second process starts while the first is running
StartOverlapping(p) ==
    /\ inv[p].pc = "idle"
    /\ p = "p1" \/ inv["p1"].pc # "idle"
    /\ runs < MaxRuns
    /\ runs' = runs + 1
    /\ inv' = [inv EXCEPT ![p] = [Fresh EXCEPT !.pc = "fetch",
                                               !.fileAtStart = file]]
    /\ UNCHANGED <<file, upstream, env, config, prev, log, file0, harness,
                 main, streak>>

\* line 216: open(version_file, "w") creates or truncates the file
OpenStore(p) ==
    /\ inv[p].pc = "persist"
    /\ \E w \in WriteAnswers :
         LET opened == OpenForWrite(file, w)
             mine == {i \in 1..Len(log) : log[i].by = p}
             last == CHOOSE i \in mine : \A j \in mine : j <= i
         IN  /\ file' = IF Raised(opened) THEN file ELSE opened.val
             /\ inv' = [inv EXCEPT
                     ![p].saved = IF Raised(opened) THEN opened ELSE @,
                     ![p].save_args = Append(@, VersionToSave(inv[p])),
                     ![p].trace = Append(@, "PERSIST"),
                     ![p].write = w,
                     ![p].pc = IF Raised(opened) THEN "raised" ELSE "write"]
             /\ log' = IF Raised(opened)
                       THEN [log EXCEPT ![last].saved = opened]
                       ELSE log
    /\ UNCHANGED <<upstream, env, config, prev, runs, file0, harness, main,
                 streak>>

\* lines 217-220: json.dump and the close that writes the buffer out
WriteStore(p) ==
    /\ inv[p].pc = "write"
    /\ \E now \in Times :
         LET mine == {i \in 1..Len(log) : log[i].by = p}
             last == CHOOSE i \in mine : \A j \in mine : j <= i
             toks == JsonDumps(VersionRecord(inv[p].save_args[1], now))
             failed == inv[p].write = "full"
             out == IF failed THEN Raise("OSError") ELSE Return(PyNone)
         IN  /\ file' = IF failed THEN file ELSE WriteAtStart(file, toks)
             /\ inv' = [inv EXCEPT ![p].saved = out,
                                   ![p].pc = IF failed THEN "raised"
                                             ELSE "returned"]
             /\ log' = [log EXCEPT ![last].saved = out]
    /\ UNCHANGED <<upstream, env, config, prev, runs, file0, harness, main,
                 streak>>

\* the stores and the releases the overlapping processes are run against
OverlapFiles == {Absent, InvalidJsonFile, RecordFile(V090, T0), RecordFile(V100, T0)}

OverlapInit ==
    /\ file \in OverlapFiles
    /\ file0 = file
    /\ upstream \in {TagBody(V100), TagBody(NotAVersion)}
    /\ \E e \in Environments : env = e[1] /\ config = e[2]
    /\ inv = [p \in Procs |-> Fresh]
    /\ prev = NoRun
    /\ log = <<>>
    /\ runs = 0
    /\ harness = NoCall
    /\ main = NoMain
    /\ streak = NoStreak

OverlapNext ==
    \/ \E p \in Procs : StartOverlapping(p)
    \/ \E p \in Procs : Fetch(p)
    \/ \E p \in Procs : Filter(p)
    \/ \E p \in Procs : Compare(p)
    \/ \E p \in Procs : Notify(p)
    \/ \E p \in Procs : OpenStore(p)
    \/ \E p \in Procs : WriteStore(p)
    \/ \E p \in Procs : Exit(p)

OverlapSpec == OverlapInit /\ [][OverlapNext]_vars

(***************************************************************************)
(* The notifier called directly, as tests/test_discord.py does: one call   *)
(* of get_discord_webhook_url or of send_discord_notification in any       *)
(* environment, with any configuration and any answer of the webhook.      *)
(***************************************************************************)
EnvUrl == DiscordPrefix \o <<"env">>
ActionsUrl == DiscordPrefix \o <<"actions">>
ConfigUrl == DiscordPrefix \o <<"config">>
EmptyStr == PyStr(<<>>)

NotifyEnvirons ==
    {Environ(t, e, u, i) :
        t \in {PyNone, PyStr(<<"true">>), PyStr(<<"false">>)},
        e \in {PyNone, PyStr(<<"http">>), PyStr(<<"connection">>),
               PyStr(<<"request">>)},
        u \in {PyNone, EmptyStr, PyStr(EnvUrl), PyStr(OtherUrl)},
        i \in {PyNone, EmptyStr, PyStr(ActionsUrl)}}

\* config['discord']['notification']: empty, with an empty or a set URL,
\* with and without color and footer_text
Notifications ==
    {PyDict(<<>>),
     PyDict(<<Item(WebhookUrlKey, EmptyStr)>>),
     PyDict(<<Item(WebhookUrlKey, PyStr(ConfigUrl))>>),
     PyDict(<<Item(WebhookUrlKey, PyStr(ConfigUrl)),
              Item(ColorKey, PyStr(<<"16711680">>))>>),
     FullNotification}

\* a configuration without the notification section (or without the
\* discord section: config.get('discord', {}) gives the same empty dict)
NoNotificationConfig == [TestConfig(PyDict(<<>>)) EXCEPT !.discord = PyDict(<<>>)]

NotifyConfigs == {TestConfig(n) : n \in Notifications} \cup {NoNotificationConfig}

\* what requests.post may do: any status requests hands back to the caller
\* (a 3xx without a Location header is not followed), or an exception
AllPostAnswers ==
    {Response(200, <<>>), Response(204, <<>>), Response(304, <<>>),
     Response(404, <<>>), Response(429, <<>>), Response(500, <<>>),
     Throws("ConnectionError"), Throws("Timeout"), Throws("Exception")}

NotifyVersions == {PyNone, PyStr(V100)}

NotifierInit ==
    /\ env \in NotifyEnvirons
    /\ config \in NotifyConfigs
    /\ file = Absent
    /\ file0 = file
    /\ upstream = TagBody(V100)
    /\ inv = [p \in Procs |-> Fresh]
    /\ prev = NoRun
    /\ log = <<>>
    /\ runs = 0
    /\ harness = NoCall
    /\ main = NoMain
    /\ streak = NoStreak

\* get_discord_webhook_url(config)
UrlCall ==
    /\ harness' = [op |-> "url", out |-> Return(GetDiscordWebhookUrl(config, env))]
    /\ UNCHANGED <<file, upstream, env, config, inv, prev, log, runs, file0,
                 main, streak>>

\* send_discord_notification(version, config), the webhook answering r
SendCall ==
    /\ \E version \in NotifyVersions, r \in AllPostAnswers :
         LET res == SendDiscordNotification(version, config, env, r)
         IN  harness' = [op |-> "send", arg |-> version, answer |-> r,
                         out |-> res.out, posts |-> res.posts]
    /\ UNCHANGED <<file, upstream, env, config, inv, prev, log, runs, file0,
                 main, streak>>

NotifierNext == UrlCall \/ SendCall

NotifierSpec == NotifierInit /\ [][NotifierNext]_vars

(***************************************************************************)
(* Properties of the release check (under Spec unless said otherwise).     *)
(***************************************************************************)
Matches(v) == IsStr(v) /\ PatternMatch(config.github.version_pattern, v.s)

\* the invocation r fetched the value v
Fetched(r, v) == r.fetched = Return(v)

\* what the store holds as the last version: absent when nothing can be loaded
StoredVersion(f) ==
    LET o == LoadLastVersion(f) IN IF Returned(o) THEN o.val ELSE PyNone

\* what a save that raised o leaves of the file that was before: the open
\* that fails leaves it alone, the write that fails leaves it truncated
AfterFailedSave(f, before, o) ==
    IF o = Raise("OSError") THEN f = Text(<<>>) ELSE f = before

\* the file holds exactly one JSON object, with both fields of a record
IsVersionRecord(f) ==
    /\ f.kind = "text"
    /\ LET data == JsonLoads(f.toks)
       IN  /\ Returned(data)
           /\ IsDict(data.val)
           /\ Len(data.val.items) = 2
           /\ DictKeys(data.val) = {LastVersionKey, LastCheckKey}
           /\ IsStr(DictGet(data.val, LastVersionKey))
           /\ IsStr(DictGet(data.val, LastCheckKey))

\* C1: whenever the fetched tag is a string the pattern does not match, the
\* invocation calls neither the notifier nor the store (no POST, no load, no
\* save), leaves the file as it was and returns without raising, whatever
\* the file holds.
C1_MismatchDoesNothing ==
    \A p \in Procs :
        LET r == inv[p]
        IN  (Returned(r.fetched) /\ IsStr(r.fetched.val) /\ ~Matches(r.fetched.val))
            => /\ r.pc \in {"filter", "returned"}
               /\ r.sent = NotCalled /\ r.posts = <<>> /\ r.notify_args = <<>>
               /\ r.saved = NotCalled /\ r.save_args = <<>>
               /\ file = r.fileAtStart

\* C1 witness: an invocation that fetched a tag the pattern rejects has
\* returned, while the store holds that same tag
C1_Witness ==
    \E p \in Procs :
        /\ inv[p].pc = "returned"
        /\ Fetched(inv[p], PyStr(NotAVersion))
        /\ inv[p].fileAtStart = RecordFile(NotAVersion, T0)

\* the precondition of C2: the invocation r has ended, it fetched a matching
\* tag and loaded a stored version that is absent or different
NewVersionRun(r) ==
    /\ Ended(r)
    /\ Returned(r.fetched) /\ Matches(r.fetched.val)
    /\ Returned(r.loaded) /\ r.loaded.val # r.fetched.val

\* C2 as stated: with a matching tag T and a stored version absent or
\* different from T, the invocation calls the notifier once with T, saves T,
\* and the store's last_version is T afterwards.
C2_Original ==
    \A p \in Procs :
        LET r == inv[p]
        IN  NewVersionRun(r)
            => /\ r.notify_args = <<r.fetched.val>>
               /\ r.save_args = <<r.fetched.val>>
               /\ StoredVersion(file) = r.fetched.val

\* C2 amended: with a matching tag T and a stored version absent or
\* different from T, the invocation calls the notifier exactly once with T;
\* if the notifier returns it calls save_last_version once with T, and if
\* that write succeeds the store's last_version is T afterwards; if the
\* notifier raises or the write fails, the file is left as it was.
C2_NotifyThenSave ==
    \A p \in Procs :
        LET r == inv[p]
            T == r.fetched.val
        IN  NewVersionRun(r)
            => /\ r.notify_args = <<T>>
               /\ Returned(r.sent) => r.save_args = <<T>>
               /\ Raised(r.sent) => r.save_args = <<>> /\ file = r.fileAtStart
               /\ Returned(r.saved) => LoadLastVersion(file) = Return(T)
               /\ Raised(r.saved) => AfterFailedSave(file, r.fileAtStart, r.saved)

\* C2 witness: a record of v0.9.0 was stored, v1.0.0 was fetched, notified
\* and saved, and the store now holds v1.0.0
C2_Witness ==
    \E p \in Procs :
        /\ NewVersionRun(inv[p])
        /\ inv[p].fileAtStart = RecordFile(V090, T0)
        /\ Fetched(inv[p], PyStr(V100))
        /\ inv[p].sent = Return(PyTrue)
        /\ Returned(inv[p].saved)
        /\ StoredVersion(file) = PyStr(V100)

\* C3: when the fetched tag matches the pattern and equals the loaded
\* last_version, the invocation returns at once: no notifier call, no POST,
\* no save, and the file (last_version and last_check) is what it was.
C3_SameVersionDoesNothing ==
    \A p \in Procs :
        LET r == inv[p]
        IN  (/\ Returned(r.fetched) /\ Matches(r.fetched.val)
             /\ Returned(r.loaded) /\ r.loaded.val = r.fetched.val)
            => /\ r.pc = "returned"
               /\ r.sent = NotCalled /\ r.posts = <<>> /\ r.notify_args = <<>>
               /\ r.saved = NotCalled /\ r.save_args = <<>>
               /\ file = r.fileAtStart

\* C3 witness: the store held v1.0.0, v1.0.0 was fetched, and the invocation
\* has returned
C3_Witness ==
    \E p \in Procs :
        /\ inv[p].pc = "returned"
        /\ Fetched(inv[p], PyStr(V100))
        /\ inv[p].loaded = Return(PyStr(V100))
        /\ inv[p].fileAtStart = RecordFile(V100, T0)

\* an invocation in which the notifier and the store write, if called, succeed
Succeeds(r) ==
    /\ r.sent \in {NotCalled, Return(PyTrue)}
    /\ r.saved \in {NotCalled, Return(PyNone)}

\* the tag v is new for the store f: it matches and differs from what f holds
IsNew(v, f) == Matches(v) /\ StoredVersion(f) # v

\* two consecutive invocations have ended, prev and then r, both fetched
\* the same tag, and in both the notifier and the store write succeeded
TwoRunsSameTag(r) ==
    /\ Ended(r) /\ Ended(prev)
    /\ Succeeds(prev) /\ Succeeds(r)
    /\ Returned(prev.fetched) /\ r.fetched = prev.fetched

\* C4: of two consecutive invocations that fetch the same tag and in which
\* the notifier and the store write succeed, the first delivers exactly one
\* notification if the tag is new for the store it started from and none
\* otherwise, and the second delivers none.
C4_Idempotence ==
    \A p \in Procs :
        LET r == inv[p]
        IN  TwoRunsSameTag(r)
            => /\ prev.delivered
                    = (IF IsNew(prev.fetched.val, prev.fileAtStart) THEN 1 ELSE 0)
               /\ r.delivered = 0

\* C5: when send_discord_notification raises, save_last_version is not
\* called and the file is unchanged; and the next invocation, when it
\* fetches the same tag, calls the notifier with that tag again.
C5_RaiseKeepsStoreAndRetries ==
    \A p \in Procs :
        LET r == inv[p]
        IN  /\ Raised(r.sent)
               => /\ r.pc = "raised"
                  /\ r.saved = NotCalled /\ r.save_args = <<>>
                  /\ file = r.fileAtStart
            /\ (/\ Ended(prev) /\ Raised(prev.sent)
                /\ Ended(r) /\ Fetched(r, prev.latest_version))
               => r.notify_args = <<prev.latest_version>>

\* C5 witness: the notifier raised in the last invocation, and this one has
\* fetched the same tag and called the notifier with it
C5_Witness ==
    \E p \in Procs :
        /\ Ended(prev) /\ Raised(prev.sent)
        /\ Ended(inv[p]) /\ Fetched(inv[p], prev.latest_version)
        /\ inv[p].notify_args = <<prev.latest_version>>
        /\ file = prev.fileAtStart

\* C6: when get_latest_release returns None or the empty string, the
\* invocation returns without raising, having loaded nothing, called no
\* notifier, issued no POST and written nothing.
C6_AbsentFetchStops ==
    \A p \in Procs :
        LET r == inv[p]
        IN  (Returned(r.fetched) /\ ~Truthy(r.fetched.val))
            => /\ r.pc = "returned"
               /\ r.loaded = NotCalled
               /\ r.sent = NotCalled /\ r.posts = <<>>
               /\ r.saved = NotCalled
               /\ file = r.fileAtStart

\* C6 witness: an invocation that fetched None has returned, with a record
\* in the store
C6_Witness ==
    \E p \in Procs :
        /\ inv[p].pc = "returned"
        /\ Fetched(inv[p], PyNone)
        /\ inv[p].fileAtStart = RecordFile(V100, T0)

\* the notifier calls whose notification was delivered
DeliveredCalls == {i \in 1..Len(log) : log[i].out = Return(PyTrue)}
\* the notifier calls that returned and were followed by a successful save
SavedCalls ==
    {i \in 1..Len(log) : Returned(log[i].out) /\ log[i].saved = Return(PyNone)}
Latest(S) == CHOOSE i \in S : \A j \in S : j <= i

\* C7 as stated: between invocations, the store's last_version is the
\* version of the most recently delivered notification, write failures and
\* notifier failures included.
C7_Original ==
    (Idle /\ DeliveredCalls # {})
        => StoredVersion(file) = log[Latest(DeliveredCalls)].version

\* the notifier calls followed by a save that opened the file
OpenedCalls ==
    {i \in 1..Len(log) : log[i].saved \in {Return(PyNone), Raise("OSError")}}

\* C7 amended: in every reachable state the store holds at most one version
\* record; until a save opens the file it is what it was before the first
\* invocation, and from then on it is what the most recent such save left:
\* one record whose last_version is the version of that notifier call, which
\* returned without raising, or nothing when the write failed.  Every save
\* follows a notifier call that returned.
C7_StoreIsLastSaved ==
    /\ \A i \in 1..Len(log) : log[i].saved # NotCalled => Returned(log[i].out)
    /\ IF OpenedCalls = {} THEN file = file0
       ELSE LET last == log[Latest(OpenedCalls)]
            IN  IF Raised(last.saved) THEN file = Text(<<>>)
                ELSE /\ IsVersionRecord(file)
                     /\ LoadLastVersion(file) = Return(last.version)

\* C7 witness: a first notification was delivered and saved, a second one
\* for another version was delivered but its store write failed, and the
\* invocations are over
C7_Witness ==
    /\ Idle
    /\ Len(log) = 2
    /\ log[1].out = Return(PyTrue) /\ log[1].saved = Return(PyNone)
    /\ log[2].out = Return(PyTrue) /\ Raised(log[2].saved)
    /\ log[1].version # log[2].version
    /\ StoredVersion(file) = log[1].version

(***************************************************************************)
(* Properties of the version store (under StoreSpec).                      *)
(***************************************************************************)
\* C8: a load_last_version that follows a successful save_last_version(V)
\* returns V, whatever the file was before the save (absent, a record,
\* corrupt); the file then holds exactly one record, with last_version V and
\* a last_check, and nothing of its prior content.
C8_SaveLoadRoundTrip ==
    (harness.op = "load" /\ Returned(harness.saved))
        => /\ harness.out = Return(harness.saved.val)
           /\ IsVersionRecord(file)
           /\ \E now \in Times :
                file = Text(JsonDumps(VersionRecord(harness.saved.val, now)))

\* C8 witness: the file held a record of v0.9.0, v1.0.0 was saved, and the
\* load returned v1.0.0
C8_Witness ==
    /\ harness.op = "load"
    /\ harness.saved = Return(PyStr(V100))
    /\ harness.prior = RecordFile(V090, T0)
    /\ harness.out = Return(PyStr(V100))

\* C9: load_last_version returns None when the file does not exist, and
\* returns None without raising when the file exists and its text is not
\* parseable JSON.
C9_LoadAbsentOrUnparseable ==
    harness.op = "load"
        => /\ ~Exists(harness.before) => harness.out = Return(PyNone)
           /\ (harness.before.kind = "text"
                  /\ Raised(JsonLoads(harness.before.toks)))
              => harness.out = Return(PyNone)

\* C9 witness: the file held the text "invalid json" and the load returned None
C9_Witness ==
    /\ harness.op = "load"
    /\ harness.before = InvalidJsonFile
    /\ harness.out = Return(PyNone)

\* C10: for every existing version file that is not a valid version record
\* (non-JSON text, empty, a JSON value that is no object, unreadable),
\* load_last_version returns None and does not raise.
C10_CorruptLoadsAbsent ==
    (harness.op = "load" /\ Exists(harness.before)
        /\ ~IsVersionRecord(harness.before))
        => harness.out = Return(PyNone)

C12_FetchNeverRaises ==
    \A p \in Procs :
        LET r == inv[p]
            data == JsonLoads(upstream)
        IN  r.fetched # NotCalled
            => /\ Returned(r.fetched)
               /\ r.fetched.val # PyNone
                  => /\ Returned(data)
                     /\ IsDict(data.val)
                     /\ TagNameKey \in DictKeys(data.val)
                     /\ r.fetched.val = DictGet(data.val, TagNameKey)

\* the notifier calls made for the version v
CallsFor(v) == {i \in 1..Len(log) : log[i].version = v}

Order == <<"FETCH", "FILTER", "COMPARE", "NOTIFY", "PERSIST">>

IsPrefix(s, t) == Len(s) <= Len(t) /\ SubSeq(t, 1, Len(s)) = s

Running(r) == r.pc \in {"fetch", "filter", "compare", "notify", "persist"}

\* the steps an invocation has taken are an initial part of Order, each call
\* made at most once, and its position is the step that comes next
InOrder(r) ==
    LET n == Len(r.trace)
    IN  /\ IsPrefix(r.trace, Order)
        /\ (r.fetched # NotCalled) <=> n >= 1
        /\ (r.loaded # NotCalled) <=> n >= 3
        /\ (r.sent # NotCalled) <=> n >= 4
        /\ (r.saved # NotCalled) <=> n >= 5
        /\ Len(r.notify_args) = (IF n >= 4 THEN 1 ELSE 0)
        /\ Len(r.save_args) = (IF n >= 5 THEN 1 ELSE 0)
        /\ Len(r.posts) <= Len(r.notify_args)
        /\ Running(r) => /\ n < 5
                         /\ r.pc = <<"fetch", "filter", "compare",
                                     "notify", "persist">>[n + 1]
        /\ n = 5 => Ended(r)

\* a step of a running invocation takes the next step of Order, and an
\* invocation that has ended takes no further step
Advances(p) ==
    /\ (Running(inv[p]) /\ inv'[p] # inv[p])
          => /\ Len(inv'[p].trace) = Len(inv[p].trace) + 1
             /\ IsPrefix(inv[p].trace, inv'[p].trace)
    /\ (Ended(inv[p]) /\ inv'[p] # inv[p]) => inv'[p] = Fresh

\* C20: every invocation is a single pass that terminates: it performs at
\* most one fetch, one load, one notification and one save, in the order
\* FETCH, FILTER, COMPARE, NOTIFY, PERSIST; every step it takes is the next
\* one of that order, never an earlier one, so it has ended after at most
\* five steps.
C20_SinglePass ==
    /\ [](\A p \in Procs : InOrder(inv[p]))
    /\ [][\A p \in Procs : Advances(p)]_vars

\* an invocation that took all five steps and returned
C20_Witness ==
    \E p \in Procs :
        /\ inv[p].trace = Order
        /\ inv[p].pc = "returned"
        /\ Len(inv[p].posts) = 1

(***************************************************************************)
(* Properties of the notifier (under NotifierSpec).                        *)
(***************************************************************************)
\* config discord.notification.webhook_url, None when the key or a section
\* is missing
ConfigWebhook ==
    LET d == config.discord
        n == IF NotificationKey \in DictKeys(d) THEN DictGet(d, NotificationKey)
             ELSE PyDict(<<>>)
    IN  IF WebhookUrlKey \in DictKeys(n) THEN DictGet(n, WebhookUrlKey) ELSE PyNone

NonEmpty(v) == IsStr(v) /\ v.s # <<>>

\* the three sources of the webhook URL, in order of priority
Sources == <<env.DISCORD_WEBHOOK_URL, env.INPUT_DISCORD_WEBHOOK_URL, ConfigWebhook>>

NoWebhookAnywhere == \A i \in 1..3 : ~NonEmpty(Sources[i])

\* the last direct call was a send that passed the input validation
ValidSend ==
    /\ harness.op = "send"
    /\ harness.arg # PyNone
    /\ ~NoWebhookAnywhere

\* C13: send_discord_notification rejects invalid input before any network
\* call: a None version, or a webhook URL absent from all three sources,
\* raises ValueError and no POST is issued.
C13_InvalidInputRejected ==
    (harness.op = "send" /\ (harness.arg = PyNone \/ NoWebhookAnywhere))
        => /\ harness.out = Raise("ValueError")
           /\ harness.posts = <<>>

\* a send of a version with no URL in any source (the variable set but
\* empty), the webhook ready to answer 204: ValueError and no POST
C13_Witness ==
    /\ harness.op = "send"
    /\ harness.arg = PyStr(V100)
    /\ NoWebhookAnywhere
    /\ env.DISCORD_WEBHOOK_URL = EmptyStr
    /\ harness.answer = Response(204, <<>>)
    /\ harness.out = Raise("ValueError")
    /\ harness.posts = <<>>

\* C14: get_discord_webhook_url returns the first non-empty value in the
\* order DISCORD_WEBHOOK_URL, INPUT_DISCORD_WEBHOOK_URL, config
\* discord.notification.webhook_url; an unset or empty source is skipped,
\* and None is returned when no source has a non-empty value.
C14_FirstNonEmptySource ==
    harness.op = "url"
        => LET set == {i \in 1..3 : NonEmpty(Sources[i])}
           IN  IF set = {} THEN harness.out = Return(PyNone)
               ELSE harness.out =
                        Return(Sources[CHOOSE i \in set : \A j \in set : i <= j])

\* the first variable set but empty, the second and the configuration both
\* holding a URL: the second is returned
C14_Witness ==
    /\ harness.op = "url"
    /\ env.DISCORD_WEBHOOK_URL = EmptyStr
    /\ env.INPUT_DISCORD_WEBHOOK_URL = PyStr(ActionsUrl)
    /\ ConfigWebhook = PyStr(ConfigUrl)
    /\ harness.out = Return(PyStr(ActionsUrl))

\* the webhook answered the valid send with HTTP 429
RateLimited == ValidSend /\ harness.answer = Response(429, <<>>)

\* the URL the send posted to is a Discord webhook URL
PostedToDiscord == StartsWith(harness.posts[1].url.s, DiscordPrefix)

\* the test context in which a failed delivery is reported as False: TEST_ENV
\* is 'true' and TEST_ERROR_TYPE does not select the error for raising
Lenient(e) ==
    /\ env.TEST_ENV = PyStr(<<"true">>)
    /\ ~(env.TEST_ERROR_TYPE = PyStr(<<"http">>) /\ e = "HTTPError")
    /\ ~(env.TEST_ERROR_TYPE = PyStr(<<"connection">>) /\ e = "ConnectionError")
    /\ ~(env.TEST_ERROR_TYPE \in {PyNone, PyStr(<<"request">>)}
            /\ ~PostedToDiscord)

Answered2xx ==
    /\ harness.answer.kind = "response"
    /\ harness.answer.status >= 200
    /\ harness.answer.status < 300

\* C16: a call that passes the input validation issues exactly one POST; it
\* returns True for any 2xx status, and in production (TEST_ENV not
\* 'true') every exception of the transport and every status that is not
\* 2xx is raised to the caller.
C16_OnePostTrueOrRaise ==
    ValidSend
        => /\ Len(harness.posts) = 1
           /\ Answered2xx => harness.out = Return(PyTrue)
           /\ (env.TEST_ENV # PyStr(<<"true">>) /\ ~Answered2xx)
                  => Raised(harness.out)

\* the string s contains the string sub
Contains(s, sub) ==
    \E i \in 1..(Len(s) + 1) :
        /\ i + Len(sub) - 1 <= Len(s)
        /\ SubSeq(s, i, i + Len(sub) - 1) = sub

\* the value configured under config['discord']['notification'], or the default
Configured(key, default) ==
    LET d == config.discord
        n == IF NotificationKey \in DictKeys(d) THEN DictGet(d, NotificationKey)
             ELSE PyDict(<<>>)
    IN  IF key \in DictKeys(n) THEN DictGet(n, key) ELSE default

ReleaseUrl(version) ==
    <<"https://github.com/">> \o config.github.repository
        \o <<"/releases/tag/">> \o version

\* C17: the body POSTed has exactly one embed; its title references the
\* project name, its description contains the version and the release URL,
\* and it carries a color, a timestamp and a footer text, color and footer
\* being the configured values or the defaults.
C17_MessageShape ==
    ValidSend
        => LET m == harness.posts[1].json
               e == m.embeds[1]
           IN  /\ Len(m.embeds) = 1
               /\ e.color = Configured(ColorKey, PyStr(<<"5814783">>))
               /\ e.footer.text
                      = Configured(FooterTextKey, PyStr(<<"GitHub Release Bot">>))
               /\ Contains(e.title, config.github.name)
               /\ Contains(e.description, harness.arg.s)
               /\ Contains(e.description, ReleaseUrl(harness.arg.s))
               /\ "timestamp" \in DOMAIN e

(***************************************************************************)
(* Properties of the main script (under MainSpec).                         *)
(***************************************************************************)
\* no webhook URL is configured in any source
NoWebhookConfigured ==
    /\ ~NonEmpty(env.DISCORD_WEBHOOK_URL)
    /\ ~NonEmpty(env.INPUT_DISCORD_WEBHOOK_URL)
    /\ ~NonEmpty(ConfigWebhook)

\* C18: run as the main script with no webhook URL configured in any
\* source, the process exits with a non-zero status before the logging
\* setup and before check_for_new_release: once past the guard it has
\* exited, and it made no fetch, no store access and no notification.
C18_NoWebhookExits ==
    (main.pc \notin {"none", "guard"} /\ NoWebhookConfigured)
        => /\ main.pc = "exited"
           /\ main.exit # <<>>
           /\ main.exit # <<0>>
           /\ main.logging = NotCalled
           /\ ~main.checked
           /\ \A p \in Procs : inv[p] = Fresh
           /\ Len(log) = main.log0
           /\ file = main.file0

\* a process started with a new release upstream and no webhook URL
\* anywhere: it has exited with status 1 and the store still holds the old
\* version
C18_Witness ==
    /\ NoWebhookConfigured
    /\ main.pc = "exited"
    /\ main.exit = <<1>>
    /\ main.errors = <<"No Discord webhook URL configured!">>
    /\ upstream = TagBody(V100)
    /\ file = RecordFile(V090, T0)

(***************************************************************************)
(* Further properties of the version store (under StoreSpec).              *)
(***************************************************************************)
\* C21: save_last_version ensures that the parent directory of the version
\* file exists before it writes: a save that found no directory does not
\* fail for the lack of it, and when it returns the file is in place and
\* holds the record.
C21_SaveCreatesDirectory ==
    (harness.op = "save" /\ harness.before.kind = "nodir")
        => /\ harness.out # Raise("FileNotFoundError")
           /\ Returned(harness.out)
                 => /\ IsVersionRecord(file)
                    /\ StoredVersion(file) = harness.arg

(***************************************************************************)
(* Further properties of the notifier (under NotifierSpec).                *)
(***************************************************************************)
\* a valid send in the context of the tests: TEST_ENV is 'true',
\* TEST_ERROR_TYPE is not set, and the URL is a Discord webhook URL
TestContextSend ==
    /\ ValidSend
    /\ env.TEST_ENV = PyStr(<<"true">>)
    /\ env.TEST_ERROR_TYPE = PyNone
    /\ PostedToDiscord

\* C22: in the test context with a valid Discord webhook URL, the send
\* returns False for a 429 answer and raises HTTPError for a 500 answer.
C22_TestContext429And500 ==
    TestContextSend
        => /\ harness.answer = Response(429, <<>>)
                 => harness.out = Return(PyFalse)
           /\ harness.answer = Response(500, <<>>)
                 => harness.out = Raise("HTTPError")

(***************************************************************************)
(* Further properties of the main script (under MainSpec).                 *)
(***************************************************************************)
\* C23: within one process (the import, then the main block's call of
\* check_for_new_release and what it calls) the configuration is loaded
\* exactly once.
C23_ConfigLoadedOnce ==
    main.pc # "none" => main.config_loads = 1

(***************************************************************************)
(* Properties of overlapping invocations (under OverlapSpec).              *)
(***************************************************************************)
\* both processes have ended an invocation in which they fetched the same
\* matching tag T and loaded the same store, which no save had touched yet
\* and which did not hold T
BothLoadedBeforeSave(T) ==
    /\ \A p \in Procs :
          /\ Ended(inv[p])
          /\ inv[p].fetched = Return(T)
          /\ Returned(inv[p].loaded)
          /\ inv[p].loaded.val # T
    /\ Matches(T)
    /\ inv["p1"].fileAtLoad = inv["p2"].fileAtLoad
    /\ inv["p1"].fileAtLoad = inv["p1"].fileAtStart
    /\ inv["p2"].fileAtLoad = inv["p1"].fileAtStart

\* the file holds one record with last_version T and nothing else
SingleRecord(f, T) == IsVersionRecord(f) /\ StoredVersion(f) = T

C25_ResultIgnored ==
    \A p \in Procs :
        LET r == inv[p]
        IN  /\ (Returned(r.sent) /\ r.pc # "persist")
                  => r.save_args = <<r.fetched.val>>
            /\ (r.sent = Return(PyFalse) /\ r.saved = Return(PyNone))
                  => SingleRecord(file, r.fetched.val)
            /\ (/\ prev.sent = Return(PyFalse) /\ prev.saved = Return(PyNone)
                /\ Ended(r) /\ r.fetched = prev.fetched)
                  => r.sent = NotCalled /\ r.notify_args = <<>>

\* the notifier returned False for v1.0.0 in the last invocation, which
\* saved it; this one fetched v1.0.0 again and returned without notifying
C25_Witness ==
    \E p \in Procs :
        /\ prev.sent = Return(PyFalse)
        /\ prev.save_args = <<PyStr(V100)>>
        /\ prev.saved = Return(PyNone)
        /\ inv[p].fetched = Return(PyStr(V100))
        /\ inv[p].pc = "returned"
        /\ inv[p].sent = NotCalled
        /\ DeliveredCalls = {}

\* C26 as stated: when the save fails after a delivered notification for T,
\* the store keeps its previous content, and the next invocation that
\* fetches T calls the notifier with T a second time.
C26_Original ==
    \A p \in Procs :
        LET r == inv[p]
        IN  /\ (r.sent = Return(PyTrue) /\ Raised(r.saved))
                  => file = r.fileAtStart
            /\ (/\ prev.sent = Return(PyTrue) /\ Raised(prev.saved)
                /\ Ended(r) /\ r.fetched = prev.fetched)
                  => /\ r.fileAtStart = prev.fileAtStart
                     /\ r.notify_args = prev.notify_args

\* C26, amended: when the save fails after a delivered notification for T,
\* the store holds no record for T: it keeps its previous content when the
\* open failed and is left empty when the write failed; the next invocation
\* that fetches T calls the notifier with T a second time.
C26_FailedSaveNotifiesAgain ==
    \A p \in Procs :
        LET r == inv[p]
        IN  /\ (r.sent = Return(PyTrue) /\ Raised(r.saved))
                  => /\ AfterFailedSave(file, r.fileAtStart, r.saved)
                     /\ StoredVersion(file) # r.fetched.val
            /\ (/\ prev.sent = Return(PyTrue) /\ Raised(prev.saved)
                /\ Ended(r) /\ r.fetched = prev.fetched)
                  => /\ AfterFailedSave(r.fileAtStart, prev.fileAtStart,
                                        prev.saved)
                     /\ r.notify_args = prev.notify_args
                     /\ Cardinality(CallsFor(r.fetched.val)) >= 2

\* v1.0.0 was delivered, its save was denied, and the next invocation
\* delivered v1.0.0 again
C26_Witness ==
    \E p \in Procs :
        /\ prev.sent = Return(PyTrue)
        /\ prev.saved = Raise("PermissionError")
        /\ inv[p].fetched = Return(PyStr(V100))
        /\ inv[p].sent = Return(PyTrue)
        /\ log[1].version = PyStr(V100)
        /\ log[2].version = PyStr(V100)
        /\ DeliveredCalls = {1, 2}

\* the webhook answered the POST with a 2xx status
Is2xx(r) == r.kind = "response" /\ r.status >= 200 /\ r.status < 300

\* C27: in production (TEST_ENV not 'true') send_discord_notification never
\* returns False, it returns True or raises, and check_for_new_release
\* reaches save_last_version only after a successful delivery: one POST that
\* the webhook answered with a 2xx status.
C27_ProductionSaveAfterDelivery ==
    \A p \in Procs :
        LET r == inv[p]
        IN  ~IsTestEnv(env)
              => /\ r.sent # Return(PyFalse)
                 /\ r.saved # NotCalled
                      => /\ r.sent = Return(PyTrue)
                         /\ Len(r.answers) = 1
                         /\ Is2xx(r.answers[1])

\* C27, what holds of it: in production the send never returns False, and
\* the save is reached only after a send that returned True, whose one POST
\* was answered with a status below 400.
C27_ProductionSaveAfterTrue ==
    \A p \in Procs :
        LET r == inv[p]
        IN  ~IsTestEnv(env)
              => /\ r.sent # Return(PyFalse)
                 /\ r.saved # NotCalled
                      => /\ r.sent = Return(PyTrue)
                         /\ Len(r.answers) = 1
                         /\ r.answers[1].kind = "response"
                         /\ r.answers[1].status < 400

\* in production the webhook answered 304 and the version was saved
C27_Witness ==
    \E p \in Procs :
        /\ ~IsTestEnv(env)
        /\ inv[p].answers = <<Response(304, <<>>)>>
        /\ inv[p].saved = Return(PyNone)

\* every version passed to save_last_version is the tag fetched by the same
\* invocation, and it matches the pattern
SavesFetchedTag ==
    \A p \in Procs :
        \A i \in 1..Len(inv[p].save_args) :
            /\ inv[p].fetched = Return(inv[p].save_args[i])
            /\ Matches(inv[p].save_args[i])

\* the stored last_version is a matching tag that was notified and saved
StoresSavedTag ==
    \E i \in 1..Len(log) :
        /\ log[i].saved = Return(PyNone)
        /\ Matches(log[i].version)
        /\ StoredVersion(file) = log[i].version

\* C28: every version check_for_new_release writes to the store matches the
\* version pattern and is the tag fetched in the same invocation; over any
\* sequence of invocations the stored last_version is its initial value or
\* such a tag.
C28_StoredIsInitialOrFetchedTag ==
    /\ SavesFetchedTag
    /\ \/ StoredVersion(file) = StoredVersion(file0)
       \/ StoresSavedTag

\* C28, what holds of it: the versions written are matching fetched tags,
\* and the stored last_version is its initial value or such a tag unless
\* the most recent save failed while writing and left the file empty.
C28_StoredUnlessTruncated ==
    /\ SavesFetchedTag
    /\ \/ StoredVersion(file) = StoredVersion(file0)
       \/ StoresSavedTag
       \/ /\ file = Text(<<>>)
          /\ OpenedCalls # {}
          /\ log[Latest(OpenedCalls)].saved = Raise("OSError")

\* the store started with v0.9.0, and a save of v1.0.0 that failed while
\* writing left it without a last_version
C28_Witness ==
    /\ StoredVersion(file0) = PyStr(V090)
    /\ log # <<>>
    /\ log[Len(log)].version = PyStr(V100)
    /\ log[Len(log)].saved = Raise("OSError")
    /\ StoredVersion(file) = PyNone

\* the handler of the main block logged an exception
HandlerLogged ==
    \E i \in 1..Len(main.errors) :
        main.errors[i] = "Unexpected error occurred:"

\* C29: run as the main script with a webhook URL configured, every
\* exception raised by setup_logging or by check_for_new_release (a failed
\* notification, a failed write of the version store) is caught by the
\* handler of the main block and only logged, and the process ends with
\* status 0; the exit for the missing webhook URL, which the handler does
\* not catch, is the only non-zero exit of the main block.
C29_OnlyMissingWebhookExitsNonZero ==
    main.pc = "exited"
        => /\ main.exit \in {<<0>>, <<1>>}
           /\ main.exit = <<1>> <=> ~Truthy(main.webhook)
           /\ Truthy(main.webhook)
                => /\ main.logging # NotCalled
                   /\ HandlerLogged
                        <=> \/ Raised(main.logging)
                            \/ main.checked /\ prev.pc = "raised"
                   /\ (~main.checked) <=> Raised(main.logging)
           /\ ~Truthy(main.webhook) => ~HandlerLogged

\* a process with a webhook URL delivered the notification, failed to write
\* the version store, logged the exception and ended with status 0
C29_Witness ==
    /\ main.pc = "exited"
    /\ Truthy(main.webhook)
    /\ main.checked
    /\ prev.sent = Return(PyTrue)
    /\ prev.saved = Raise("PermissionError")
    /\ HandlerLogged
    /\ main.exit = <<0>>

(***************************************************************************)
(* A longer sequence of invocations in production, one after the other,    *)
(* starting from an empty store or a stored v0.9.0, while upstream moves   *)
(* between releases.                                                       *)
(***************************************************************************)
MaxChecks == 3

HistoryFiles == {Absent, RecordFile(V090, T0)}

HistoryInit ==
    /\ file \in HistoryFiles
    /\ file0 = file
    /\ upstream \in {TagBody(V100), TagBody(V090)}
    /\ env = NoEnv
    /\ config = TestConfig(FullNotification)
    /\ inv = [p \in Procs |-> Fresh]
    /\ prev = NoRun
    /\ log = <<>>
    /\ runs = 0
    /\ harness = NoCall
    /\ main = NoMain
    /\ streak = NoStreak

\* the scheduler starts the next check_for_new_release(config)
StartCheck(p) ==
    /\ p = "p1"
    /\ Idle
    /\ runs < MaxChecks
    /\ runs' = runs + 1
    /\ inv' = [inv EXCEPT ![p] = [Fresh EXCEPT !.pc = "fetch",
                                               !.fileAtStart = file]]
    /\ UNCHANGED <<file, upstream, env, config, prev, log, file0, harness,
                 main, streak>>

HistoryNext ==
    \/ \E p \in Procs : StartCheck(p)
    \/ \E p \in Procs : Fetch(p)
    \/ \E p \in Procs : Filter(p)
    \/ \E p \in Procs : Compare(p)
    \/ \E p \in Procs : Notify(p)
    \/ \E p \in Procs : Persist(p)
    \/ \E p \in Procs : Exit(p)
    \/ UpstreamChange

HistorySpec == HistoryInit /\ [][HistoryNext]_vars

\* the invocation r handled a matching tag with success
HandledTag(r) == Successful(r) /\ Matches(r.fetched.val)

\* the tag the store holds when an invocation starts after prev: the one
\* prev handled, or what the store held at first
StoredBefore ==
    IF prev = NoRun THEN StoredVersion(file0) ELSE prev.fetched.val

\* C30: the store keeps only the last notified version, not a history.
\* Over sequential successful invocations that fetch matching tags, the
\* notifier is called, once and with the fetched tag, exactly when that tag
\* differs from the one the previous invocation left in the store, whatever
\* was notified before that; afterwards the store is a single record for
\* the fetched tag.  So when upstream goes from A to B and back to A, A is
\* notified a second time.
C30_NotifiesWhenTagDiffers ==
    \A p \in Procs :
        LET r == inv[p]
            T == r.fetched.val
        IN  (HandledTag(r) /\ (prev = NoRun \/ HandledTag(prev)))
              => /\ T # StoredBefore => r.notify_args = <<T>>
                 /\ T = StoredBefore => r.notify_args = <<>>
                 /\ IsVersionRecord(file)
                 /\ StoredVersion(file) = T

\* upstream went from v1.0.0 to v0.9.0 and back: three invocations, three
\* notifications delivered and saved, v1.0.0 notified twice
C30_Witness ==
    /\ Idle
    /\ Len(log) = 3
    /\ log[1].version = PyStr(V100)
    /\ log[2].version = PyStr(V090)
    /\ log[3].version = PyStr(V100)
    /\ \A i \in 1..3 : log[i].out = Return(PyTrue)
                       /\ log[i].saved = Return(PyNone)
    /\ HandledTag(prev)
    /\ StoredVersion(file) = PyStr(V100)

====
